---- MODULE Spec2Model ----
(***************************************************************************)
(* PST to mbox converter (src/pst_to_mbox.py): one run of                 *)
(* PSTToMboxConverter.convert() driven by main().                          *)
(*                                                                         *)
(* The source archive (libratom / pypff) and the output mailbox are the    *)
(* environment: every read of a source field and every call into them is   *)
(* answered nondeterministically, at the moment the code makes it, by a    *)
(* value or by an exception of some class.  The state holds what the code  *)
(* holds: the converter's counters, the position of convert() and of the   *)
(* message loop, the locals of the message under conversion, the records   *)
(* appended to the mailbox and the error lines logged.                     *)
(*                                                                         *)
(* Of the headers assembled in convert_pst_message_to_email the record     *)
(* keeps From and the envelope line; Subject, To, Date, Message-ID and     *)
(* X-Folder are represented by the reads that can raise while they are     *)
(* assembled, not by their values.  A mailbox record is kept as the        *)
(* position of its message in the source.                                  *)
(***************************************************************************)
EXTENDS Integers, Sequences, FiniteSets, TLC

\* Most messages the source iterator yields in one run.
MaxMsgs == 2
\* The values number_of_attachments takes.
AttachmentCounts == {0, 1, 2}

(***************************************************************************)
(* Python values and exceptions                                            *)
(***************************************************************************)
None == [t |-> "None"]
PyStr(s) == [t |-> "str", v |-> s]
PyInt(n) == [t |-> "int", v |-> n]
PyBytes(b) == [t |-> "bytes", v |-> b]
PyObj(o) == [t |-> "obj", v |-> o]

\* bool(x)
Truthy(x) ==
    CASE x.t = "None" -> FALSE
      [] x.t = "str" -> x.v # ""
      [] x.t = "int" -> x.v # 0
      [] x.t = "bytes" -> Len(x.v) > 0
      [] OTHER -> TRUE

\* x or d
PyOr(x, d) == IF Truthy(x) THEN x ELSE d

\* str.lower() on the answers the overwrite prompt is given
Lower(s) ==
    CASE s = "Y" -> "y"
      [] s = "YES" -> "yes"
      [] s = "Yes" -> "yes"
      [] s = "N" -> "n"
      [] s = "From" -> "from"
      [] s = "FROM" -> "from"
      [] s = "Date" -> "date"
      [] s = "X-From" -> "x-from"
      [] OTHER -> s

\* Exception classes a source read is seen to raise; UnicodeDecodeError is a
\* subclass of ValueError, OSError is what libpff reports an I/O failure as.
Kinds == {"SystemError", "ValueError", "UnicodeDecodeError", "OverflowError",
          "AttributeError", "OSError"}

\* The outcome of evaluating obj.attr in the source library.
Value(v) == [tag |-> "value", v |-> v]
Raises(k) == [tag |-> "raise", exc |-> k]
\* The outcome of a call in the converter.
Return(v) == [tag |-> "return", v |-> v]
Throw(k) == [tag |-> "raise", exc |-> k]

Reads(values) == {Value(v) : v \in values} \cup {Value(None)} \cup {Raises(k) : k \in Kinds}

\* The classes the converter's handlers for corrupted fields name.
FieldErrors == {"SystemError", "ValueError", "UnicodeDecodeError", "OverflowError"}

\* isinstance(e, (SystemError, ValueError, UnicodeDecodeError, OverflowError))
IsFieldError(k) == k \in FieldErrors

\* A handler in safe_get_attr that names UnicodeDecodeError alone.
AccessorCatchesDecodeOnly(k) == k = "UnicodeDecodeError"

\* except (SystemError, ValueError, UnicodeDecodeError, OverflowError) in safe_get_attr
AccessorCatches(k) == IsFieldError(k)

\* getattr(obj, attr, default)
GetAttr(read, default) ==
    IF read.tag = "raise"
    THEN IF read.exc = "AttributeError" THEN Return(default) ELSE Throw(read.exc)
    ELSE Return(read.v)

safe_get_attr(read, default) ==
    LET r == GetAttr(read, default) IN
    IF r.tag = "raise"
    THEN IF AccessorCatches(r.exc) THEN Return(default) ELSE r
    ELSE IF r.v # None THEN r ELSE Return(default)

(***************************************************************************)
(* State                                                                   *)
(***************************************************************************)
VARIABLES
    pc,                   \* position of main() / convert()
    result,               \* what convert() returned: "none", "true", "false"
    exit_code,            \* sys.exit status, -1 while running
    locked,               \* mbox_file._locked
    acquired,             \* times the mailbox lock was taken
    released,             \* times the mailbox lock was released
    raising,              \* an exception is propagating through the try/finally
    abort,                \* why convert() failed, "none" if it did not
    consumed,             \* messages the iterator has yielded
    iter_state,           \* the source iterator: "open", "exhausted", "raised"
    message_count,        \* process_messages' local
    processed_emails,
    failed_emails,
    attachments_found,
    attachments_extracted,
    attachment_bytes,
    mbox,                 \* records appended to the output mailbox, in order
    errlog,               \* "Failed to process message" lines, in order
    mpc,                  \* position inside the loop body
    body_text,
    body_html,
    attachment_count,
    idx,                  \* extract_attachments' i
    attachments,
    att,                  \* locals of the attachment under extraction
    att_errors,           \* exceptions raised inside extract_attachments
    sender,               \* sender_name, sender_email and how they were recovered
    email_msg,
    probe                 \* one call of safe_get_attr on its own

convVars == <<pc, result, exit_code, locked, acquired, released, raising, abort>>
srcVars == <<consumed, iter_state>>
statVars == <<processed_emails, failed_emails, message_count>>
attStatVars == <<attachments_found, attachments_extracted, attachment_bytes>>
outVars == <<mbox, errlog>>
extractVars == <<attachment_count, idx, attachments, att, att_errors>>
bodyVars == <<body_text, body_html>>
msgVars == <<bodyVars, extractVars, sender, email_msg>>
vars == <<convVars, srcVars, statVars, attStatVars, outVars, mpc, msgVars, probe>>

NoAtt == [filename |-> None, size |-> PyInt(0), data |-> None, tried |-> <<>>]
NoMsg == [tree |-> None, From |-> None, unixfrom |-> None]
NoSender == [name |-> PyStr(""), email |-> PyStr(""), structured |-> PyStr(""),
             headers |-> FALSE, searched |-> FALSE]
NoProbe == [state |-> "none"]

\* The locals of one loop iteration, as they are before the first statement.
ClearMsg ==
    /\ body_text' = PyStr("")
    /\ body_html' = PyStr("")
    /\ attachment_count' = 0
    /\ idx' = 0
    /\ attachments' = <<>>
    /\ att' = NoAtt
    /\ att_errors' = <<>>
    /\ sender' = NoSender
    /\ email_msg' = NoMsg

\* The converter as __init__ leaves it, convert() not yet called.
InitRun ==
    /\ pc = "start"
    /\ result = "none"
    /\ exit_code = -1
    /\ locked = FALSE
    /\ acquired = 0
    /\ released = 0
    /\ raising = FALSE
    /\ abort = "none"
    /\ consumed = 0
    /\ iter_state = "open"
    /\ message_count = 0
    /\ processed_emails = 0
    /\ failed_emails = 0
    /\ attachments_found = 0
    /\ attachments_extracted = 0
    /\ attachment_bytes = 0
    /\ mbox = <<>>
    /\ errlog = <<>>
    /\ mpc = "idle"
    /\ body_text = PyStr("")
    /\ body_html = PyStr("")
    /\ attachment_count = 0
    /\ idx = 0
    /\ attachments = <<>>
    /\ att = NoAtt
    /\ att_errors = <<>>
    /\ sender = NoSender
    /\ email_msg = NoMsg

Init ==
    /\ InitRun
    /\ probe = NoProbe

(***************************************************************************)
(* convert(): validation, opening, locking                                 *)
(***************************************************************************)
\* except Exception in convert(): log, return False.
ConvertFails(why) ==
    /\ pc' = "returned"
    /\ result' = "false"
    /\ abort' = why

Responses == {"y", "yes", "Y", "YES", "n", "N", "", "ok"}

\* response.lower() not in ['y', 'yes']
Declines(response) == Lower(response) \notin {"y", "yes"}

\* validate_files() as called from convert(); a raise goes to convert()'s handler.
ValidateFiles ==
    /\ pc = "start"
    /\ \E exists \in BOOLEAN, is_file \in BOOLEAN, out_exists \in BOOLEAN, response \in Responses :
        IF ~exists THEN ConvertFails("missing")
        ELSE IF ~is_file THEN ConvertFails("not_file")
        ELSE IF out_exists /\ Declines(response) THEN ConvertFails("declined")
        ELSE /\ pc' = "validated"
             /\ UNCHANGED <<result, abort>>
    /\ UNCHANGED <<exit_code, locked, acquired, released, raising>>
    /\ UNCHANGED <<srcVars, statVars, attStatVars, outVars, mpc, msgVars, probe>>

\* open_pst_file(): PffArchive(path) either opens or raises (RuntimeError).
OpenPstFile ==
    /\ pc = "validated"
    /\ \E ok \in BOOLEAN :
        IF ok
        THEN /\ pc' = "opened"
             /\ UNCHANGED <<result, abort>>
        ELSE ConvertFails("open")
    /\ UNCHANGED <<exit_code, locked, acquired, released, raising, consumed, iter_state>>
    /\ UNCHANGED <<statVars, attStatVars, outVars, mpc, msgVars, probe>>

\* mailbox.mbox(path) and mbox_file.lock(); either may raise, before the try.
LockMbox ==
    /\ pc = "opened"
    /\ \E ok \in BOOLEAN :
        IF ok
        THEN /\ pc' = "loop"
             /\ locked' = TRUE
             /\ acquired' = acquired + 1
             /\ UNCHANGED <<result, abort>>
        ELSE /\ ConvertFails("lock")
             /\ UNCHANGED <<locked, acquired>>
    /\ UNCHANGED <<exit_code, released, raising>>
    /\ UNCHANGED <<srcVars, statVars, attStatVars, outVars, mpc, msgVars, probe>>

(***************************************************************************)
(* process_messages(): the loop over pst_archive.messages()                 *)
(***************************************************************************)
\* A loop handler placed after the processed_emails increment.
FailMessageCounted ==
    /\ failed_emails' = failed_emails + 1
    /\ processed_emails' = processed_emails + 1
    /\ errlog' = Append(errlog, [index |-> message_count, pos |-> consumed - 1])
    /\ mpc' = "idle"
    /\ ClearMsg
    /\ UNCHANGED <<message_count, mbox>>

\* except Exception in the loop body: count the failure, log message_count.
\* pos (the 0-based position of the message in the source) is kept beside
\* the logged index to state properties; the code logs index.
FailMessage ==
    /\ failed_emails' = failed_emails + 1
    /\ errlog' = Append(errlog, [index |-> message_count, pos |-> consumed - 1])
    /\ mpc' = "idle"
    /\ ClearMsg
    /\ UNCHANGED <<processed_emails, message_count, mbox>>

\* A process_messages without the handler around the loop: a raise of the
\* iterator leaves the try block of convert() before flush().
NextMessagePropagates ==
    /\ pc = "loop"
    /\ mpc = "idle"
    /\ \/ /\ consumed < MaxMsgs
          /\ consumed' = consumed + 1
          /\ mpc' = "folder"
          /\ UNCHANGED <<pc, iter_state, raising>>
       \/ /\ iter_state' = "exhausted"
          /\ pc' = "flush"
          /\ UNCHANGED <<consumed, mpc, raising>>
       \/ /\ iter_state' = "raised"
          /\ pc' = "unlock"
          /\ raising' = TRUE
          /\ UNCHANGED <<consumed, mpc>>
    /\ UNCHANGED <<result, exit_code, locked, acquired, released, abort>>
    /\ UNCHANGED <<statVars, attStatVars, outVars, msgVars, probe>>

\* for pst_message in pst_archive.messages(): the iterator yields the next
\* message, is exhausted, or raises (caught by the outer handler, which logs
\* and returns).
NextMessage ==
    /\ pc = "loop"
    /\ mpc = "idle"
    /\ \/ /\ consumed < MaxMsgs
          /\ consumed' = consumed + 1
          /\ mpc' = "folder"
          /\ UNCHANGED <<pc, iter_state>>
       \/ /\ iter_state' = "exhausted"
          /\ pc' = "flush"
          /\ UNCHANGED <<consumed, mpc>>
       \/ /\ iter_state' = "raised"
          /\ pc' = "flush"
          /\ UNCHANGED <<consumed, mpc>>
    /\ UNCHANGED <<result, exit_code, locked, acquired, released, raising, abort>>
    /\ UNCHANGED <<statVars, attStatVars, outVars, msgVars, probe>>

\* except (SystemError, ValueError, UnicodeDecodeError, OverflowError): pass
FolderCatches(k) == IsFieldError(k)

\* The folder path of the message: "Unknown" unless the folder and its name
\* can be read.  hasattr() absorbs an AttributeError only; what neither it
\* nor the handler takes reaches the loop's handler.
ResolveFolder ==
    /\ pc = "loop"
    /\ mpc = "folder"
    /\ \E f \in Reads({PyObj("folder")}), n \in Reads({PyStr("Inbox")}) :
        IF \/ f.tag = "raise" /\ f.exc # "AttributeError" /\ ~FolderCatches(f.exc)
           \/ f.tag = "value" /\ Truthy(f.v) /\ safe_get_attr(n, PyStr("Unknown")).tag = "raise"
        THEN FailMessage
        ELSE /\ mpc' = "bodies"
             /\ UNCHANGED <<msgVars, statVars, outVars>>
    /\ UNCHANGED <<convVars, srcVars, attStatVars, probe>>

PlainBodies == {PyStr(""), PyStr("text")}
HtmlBodies == {PyStr(""), PyStr("<p>text</p>")}

\* convert_pst_message_to_email, the two body reads.  An exception the
\* accessor lets through leaves the function (logged, re-raised) and reaches
\* the loop's handler.
ReadBodies ==
    /\ pc = "loop"
    /\ mpc = "bodies"
    /\ \E pt \in Reads(PlainBodies), ph \in Reads(HtmlBodies) :
        LET t == safe_get_attr(pt, PyStr(""))
            h == safe_get_attr(ph, PyStr(""))
        IN  IF t.tag = "raise" \/ h.tag = "raise"
            THEN FailMessage
            ELSE /\ body_text' = PyOr(t.v, PyStr(""))
                 /\ body_html' = PyOr(h.v, PyStr(""))
                 /\ mpc' = "extract"
                 /\ UNCHANGED <<extractVars, sender, email_msg, statVars, outVars>>
    /\ UNCHANGED <<convVars, srcVars, attStatVars, probe>>

(***************************************************************************)
(* extract_attachments()                                                    *)
(***************************************************************************)
Payloads == {<<>>, <<"x", "y">>}
Sizes == {PyInt(0), PyInt(2)}
AttNames == {PyStr("a.txt")}

\* f"attachment_{i}"
DefaultName(j) == PyStr("attachment_" \o ToString(j))

\* A for loop without the inner handler.
InnerCatchesNothing(k) == FALSE

\* except (SystemError, ValueError, UnicodeDecodeError, OverflowError) inside
\* the for loop: log a warning, go on with the next index.
InnerCatches(k) == IsFieldError(k)

\* The end of one pass of the for loop: the next index, or return attachments.
Advance ==
    /\ idx' = idx + 1
    /\ att' = NoAtt
    /\ mpc' = IF idx + 1 < attachment_count THEN "fetch" ELSE "body"

\* An exception of class k raised inside the for body: the inner handler
\* takes the field-error classes, anything else reaches the handler around
\* the whole loop, which logs and lets the function return what it has.
\* att_errors keeps the index and whether the class is a field-error class.
AttachmentError(k) ==
    /\ att_errors' = Append(att_errors, [index |-> idx, field |-> k \in FieldErrors])
    /\ IF InnerCatches(k)
       THEN Advance
       ELSE /\ mpc' = "body"
            /\ att' = NoAtt
            /\ UNCHANGED idx

\* hasattr(pst_message, 'number_of_attachments'), the count, attachments_found.
\* A raise here is taken by the handler around the loop.
BeginExtract ==
    /\ pc = "loop"
    /\ mpc = "extract"
    /\ \E has \in BOOLEAN, cnt \in {Value(n) : n \in AttachmentCounts} \cup {Raises(k) : k \in Kinds} :
        IF ~has \/ cnt.tag = "raise"
        THEN /\ mpc' = "body"
             /\ UNCHANGED <<attachment_count, attachments_found>>
        ELSE /\ attachment_count' = cnt.v
             /\ attachments_found' = IF cnt.v > 0 THEN attachments_found + cnt.v
                                     ELSE attachments_found
             /\ mpc' = IF cnt.v > 0 THEN "fetch" ELSE "body"
    /\ UNCHANGED <<idx, attachments, att, att_errors, attachments_extracted, attachment_bytes>>
    /\ UNCHANGED <<convVars, srcVars, statVars, outVars, bodyVars, sender, email_msg, probe>>

\* attachment = pst_message.get_attachment(i); if attachment:
FetchAttachment ==
    /\ pc = "loop"
    /\ mpc = "fetch"
    /\ \E h \in Reads({PyObj("attachment")}) :
        IF h.tag = "raise" THEN AttachmentError(h.exc)
        ELSE IF ~Truthy(h.v) THEN Advance /\ UNCHANGED att_errors
        ELSE /\ mpc' = "fields"
             /\ UNCHANGED <<idx, att, att_errors>>
    /\ UNCHANGED <<attachment_count, attachments, attStatVars>>
    /\ UNCHANGED <<convVars, srcVars, statVars, outVars, bodyVars, sender, email_msg, probe>>

\* The name and the size of the attachment, data = None.
ReadNameAndSize ==
    /\ pc = "loop"
    /\ mpc = "fields"
    /\ \E nm \in Reads(AttNames), sz \in Reads(Sizes) :
        LET filename == safe_get_attr(nm, DefaultName(idx))
            size == safe_get_attr(sz, PyInt(0))
        IN  IF filename.tag = "raise" THEN AttachmentError(filename.exc)
            ELSE IF size.tag = "raise" THEN AttachmentError(size.exc)
            ELSE /\ att' = [filename |-> PyOr(filename.v, DefaultName(idx)),
                            size |-> PyOr(size.v, PyInt(0)),
                            data |-> None,
                            tried |-> <<>>]
                 /\ mpc' = "method1"
                 /\ UNCHANGED <<idx, att_errors>>
    /\ UNCHANGED <<attachment_count, attachments, attStatVars>>
    /\ UNCHANGED <<convVars, srcVars, statVars, outVars, bodyVars, sender, email_msg, probe>>

\* What a read method of the attachment gives back: None, bytes (no more
\* than maxlen of them), or a raise.
Calls(maxlen) ==
    {Return(None)} \cup {Return(PyBytes(b)) : b \in {c \in Payloads : Len(c) <= maxlen}}
        \cup {Throw(k) : k \in Kinds}

\* How an attempt ended: it raised, gave None, or gave data.
Outcome(out) ==
    IF out.tag = "raise" THEN "raised" ELSE IF out.v = None THEN "none" ELSE "data"

\* try: data = <call> except Exception: log.  A raise leaves data as it was.
\* tried keeps the methods reached, in order, and how each ended.
Attempt(a, method, out) ==
    LET got == IF out.tag = "raise" THEN a.data ELSE out.v
    IN  [a EXCEPT !.data = got,
                  !.tried = Append(@, [method |-> method, outcome |-> Outcome(out)])]

\* hasattr(attachment, method) was False where the method would have been
\* called: tried keeps that beside the attempts.
Unavailable(a, method) ==
    [a EXCEPT !.tried = Append(@, [method |-> method, outcome |-> "unavailable"])]

\* Method 1: read_buffer(size), if the attachment has it and size > 0.
TriesReadBuffer(a, has) == a.data = None /\ has /\ a.size.v > 0

Method1 ==
    /\ pc = "loop"
    /\ mpc = "method1"
    /\ \E has \in BOOLEAN :
        IF TriesReadBuffer(att, has)
        THEN \E out \in Calls(att.size.v) : att' = Attempt(att, "read_buffer", out)
        ELSE IF TriesReadBuffer(att, TRUE) THEN att' = Unavailable(att, "read_buffer")
        ELSE att' = att
    /\ mpc' = "method2"
    /\ UNCHANGED <<attachment_count, idx, attachments, att_errors, attStatVars>>
    /\ UNCHANGED <<convVars, srcVars, statVars, outVars, bodyVars, sender, email_msg, probe>>

\* Method 2 run although an earlier method has given data.
TriesGetDataAnyway(a, has) == has

\* Method 2: get_data(), if data is still None and the attachment has it.
TriesGetData(a, has) == a.data = None /\ has

Method2 ==
    /\ pc = "loop"
    /\ mpc = "method2"
    /\ \E has \in BOOLEAN :
        IF TriesGetData(att, has)
        THEN \E out \in Calls(2) : att' = Attempt(att, "get_data", out)
        ELSE IF TriesGetData(att, TRUE) THEN att' = Unavailable(att, "get_data")
        ELSE att' = att
    /\ mpc' = "method3"
    /\ UNCHANGED <<attachment_count, idx, attachments, att_errors, attStatVars>>
    /\ UNCHANGED <<convVars, srcVars, statVars, outVars, bodyVars, sender, email_msg, probe>>

\* Method 3: the data attribute through the safe accessor, if data is None.
TriesDataField(a) == a.data = None

Method3 ==
    /\ pc = "loop"
    /\ mpc = "method3"
    /\ IF ~TriesDataField(att)
       THEN /\ mpc' = "record"
            /\ UNCHANGED <<att, idx, att_errors>>
       ELSE \E d \in Reads({PyBytes(b) : b \in Payloads}) :
            LET r == safe_get_attr(d, None) IN
            IF r.tag = "raise"
            THEN AttachmentError(r.exc)
            ELSE /\ att' = Attempt(att, "data", r)
                 /\ mpc' = "record"
                 /\ UNCHANGED <<idx, att_errors>>
    /\ UNCHANGED <<attachment_count, attachments, attStatVars>>
    /\ UNCHANGED <<convVars, srcVars, statVars, outVars, bodyVars, sender, email_msg, probe>>

\* actual_size = len(data) if data else 0
ActualSize(data) == IF Truthy(data) THEN Len(data.v) ELSE 0

\* The else branch of "if actual_size == 0 and size > 0".
CountsAsExtracted(actual_size, size) == ~(actual_size = 0 /\ size > 0)

\* The att_info dict; index is the i it was made at.
AttInfo(a, j) == [filename |-> a.filename, size |-> a.size, data |-> a.data, index |-> j]

\* Append att_info, update attachments_extracted and attachment_bytes.
RecordAttachment ==
    /\ pc = "loop"
    /\ mpc = "record"
    /\ attachments' = Append(attachments, AttInfo(att, idx))
    /\ IF CountsAsExtracted(ActualSize(att.data), att.size.v)
       THEN /\ attachments_extracted' = attachments_extracted + 1
            /\ attachment_bytes' = attachment_bytes + ActualSize(att.data)
       ELSE UNCHANGED <<attachments_extracted, attachment_bytes>>
    /\ Advance
    /\ UNCHANGED <<attachment_count, att_errors, attachments_found>>
    /\ UNCHANGED <<convVars, srcVars, statVars, outVars, bodyVars, sender, email_msg, probe>>

(***************************************************************************)
(* convert_pst_message_to_email(): the MIME tree                            *)
(***************************************************************************)
\* MIMEText(content, subtype, 'utf-8')
MIMEText(content, subtype) == [type |-> "text/" \o subtype, content |-> content]

\* MIMEMultipart(subtype) with the parts attached in order
MIMEMultipart(subtype, parts) == [type |-> "multipart/" \o subtype, parts |-> parts]

\* MIMEBase('application', 'octet-stream') with the payload, base64, and the
\* Content-Disposition header; index is the i of the attachment it carries.
AttachmentPart(a) ==
    [type |-> "application/octet-stream", encoding |-> "base64",
     filename |-> a.filename.v, payload |-> a.data.v, index |-> a.index]

\* "Add text content first": the body part of a multipart/mixed message.
MixedBody(text, html) ==
    IF Truthy(html) /\ Truthy(text)
    THEN MIMEMultipart("alternative", <<MIMEText(text.v, "plain"), MIMEText(html.v, "html")>>)
    ELSE IF Truthy(html)
    THEN MIMEText(html.v, "html")
    ELSE MIMEText(PyOr(text, PyStr("(No content)")).v, "plain")

\* if att['data'] is not None
EmitsPartNotNone(a) == a.data # None

\* if att['data']
EmitsPart(a) == Truthy(a.data)

\* for att in attachments: if att['data']: attach a part
EmittedParts(atts) ==
    LET kept == SelectSeq(atts, EmitsPart)
    IN  [k \in 1..Len(kept) |-> AttachmentPart(kept[k])]

\* "if attachments"
HasAttachments(atts) == atts # <<>>

\* The same chain with the HTML-only test ahead of the both-bodies test.
MimeTreeHtmlFirst(text, html, atts) ==
    IF HasAttachments(atts)
    THEN MIMEMultipart("mixed", <<MixedBody(text, html)>> \o EmittedParts(atts))
    ELSE IF Truthy(html)
    THEN MIMEText(html.v, "html")
    ELSE IF Truthy(html) /\ Truthy(text)
    THEN MIMEMultipart("alternative", <<MIMEText(text.v, "plain"), MIMEText(html.v, "html")>>)
    ELSE MIMEText(PyOr(text, PyStr("(No content)")).v, "plain")

\* The if / elif / elif / else that creates msg.
MimeTree(text, html, atts) ==
    IF HasAttachments(atts)
    THEN MIMEMultipart("mixed", <<MixedBody(text, html)>> \o EmittedParts(atts))
    ELSE IF Truthy(html) /\ Truthy(text)
    THEN MIMEMultipart("alternative", <<MIMEText(text.v, "plain"), MIMEText(html.v, "html")>>)
    ELSE IF Truthy(html)
    THEN MIMEText(html.v, "html")
    ELSE MIMEText(PyOr(text, PyStr("(No content)")).v, "plain")

\* msg as created: no From header, no envelope line yet.
NewMessage(tree) == [tree |-> tree, From |-> None, unixfrom |-> None]

\* Create msg.  Building a MIME part raises when its text cannot be encoded.
BuildBody ==
    /\ pc = "loop"
    /\ mpc = "body"
    /\ \E ok \in BOOLEAN :
        IF ok
        THEN /\ email_msg' = NewMessage(MimeTree(body_text, body_html, attachments))
             /\ mpc' = "subject"
             /\ UNCHANGED <<bodyVars, extractVars, sender, statVars, outVars>>
        ELSE FailMessage
    /\ UNCHANGED <<convVars, srcVars, attStatVars, probe>>

\* msg['Subject']: the subject read raises what the accessor lets through.
\* The bodies and the attachment list are not used after this point and are
\* not carried further.
SetSubject ==
    /\ pc = "loop"
    /\ mpc = "subject"
    /\ \E subj \in Reads({PyStr("s")}) :
        IF safe_get_attr(subj, PyStr("")).tag = "raise"
        THEN FailMessage
        ELSE /\ mpc' = "sender"
             /\ body_text' = PyStr("")
             /\ body_html' = PyStr("")
             /\ attachment_count' = 0
             /\ idx' = 0
             /\ attachments' = <<>>
             /\ att_errors' = <<>>
             /\ UNCHANGED <<att, sender, email_msg, statVars, outVars>>
    /\ UNCHANGED <<convVars, srcVars, attStatVars, probe>>

(***************************************************************************)
(* convert_pst_message_to_email(): sender, From, envelope line              *)
(***************************************************************************)
\* transport_headers as its lines; a line is its label, the text between the
\* colon and a "<" (all of the value if there is no "<...>"), and the text
\* inside "<...>" ("" if there is none).
PyText(lines) == [t |-> "text", v |-> lines]

HeaderLines ==
    { [label |-> "From", name |-> "Jane Doe", addr |-> "jane@example.com"],
      [label |-> "FROM", name |-> "\"Bob\"", addr |-> "bob@example.com"],
      [label |-> "From", name |-> "carol@example.com", addr |-> ""],
      [label |-> "X-From", name |-> "Eve", addr |-> "eve@example.com"] }

HeaderBlobs ==
    {PyStr("")} \cup {PyText(<<l>>) : l \in HeaderLines}
        \cup {PyText(<<l, m>>) : l \in HeaderLines, m \in HeaderLines}

\* ^From:\s*(.+?)\s*<(.+?)> with re.MULTILINE | re.IGNORECASE, on one line
FromLineMatches(line) == Lower(line.label) = "from" /\ line.name # "" /\ line.addr # ""

\* re.search: the first line that matches, if any
SearchFrom(lines) ==
    LET hits == SelectSeq(lines, FromLineMatches)
    IN  IF hits = <<>> THEN None ELSE PyObj(hits[1])

\* str.strip('"')
StripQuotes(s) == IF s = "\"Bob\"" THEN "Bob" ELSE s

\* str.strip() on a display name
Strip(s) == IF s = "  " THEN "" ELSE s

SenderNames == {PyStr(""), PyStr("Ann")}
SenderEmails == {PyStr(""), PyStr("ann@example.com")}

\* "if transport_headers"
ConsultsHeadersAlways(sender_email, transport_headers) == Truthy(transport_headers)

\* "if not sender_email and transport_headers"
ConsultsHeaders(sender_email, transport_headers) ==
    ~Truthy(sender_email) /\ Truthy(transport_headers)

\* sender_name and sender_email after the header match; structured, headers
\* and searched keep the email as read, whether transport_headers is
\* non-empty, and whether re.search was run.
RecoverSender(name, email, headers) ==
    LET searched == ConsultsHeaders(email, headers)
        match == IF searched THEN SearchFrom(headers.v) ELSE None
    IN  [name |-> IF Truthy(match) THEN PyStr(StripQuotes(match.v.name)) ELSE name,
         email |-> IF Truthy(match) THEN PyStr(match.v.addr) ELSE email,
         structured |-> email,
         headers |-> Truthy(headers),
         searched |-> searched]

\* sender_name and sender_email as read
ReadSender ==
    /\ pc = "loop"
    /\ mpc = "sender"
    /\ \E sn \in Reads(SenderNames), se \in Reads(SenderEmails) :
        LET name == safe_get_attr(sn, PyStr(""))
            email == safe_get_attr(se, PyStr(""))
        IN  IF name.tag = "raise" \/ email.tag = "raise"
            THEN FailMessage
            ELSE /\ sender' = [NoSender EXCEPT !.name = name.v, !.email = email.v,
                                                !.structured = email.v]
                 /\ mpc' = "headers"
                 /\ UNCHANGED <<bodyVars, extractVars, email_msg, statVars, outVars>>
    /\ UNCHANGED <<convVars, srcVars, attStatVars, probe>>

\* transport_headers as read, and the sender recovered from them
ReadTransportHeaders ==
    /\ pc = "loop"
    /\ mpc = "headers"
    /\ \E th \in Reads(HeaderBlobs) :
        LET headers == safe_get_attr(th, PyStr(""))
        IN  IF headers.tag = "raise"
            THEN FailMessage
            ELSE /\ sender' = RecoverSender(sender.name, sender.email, headers.v)
                 /\ mpc' = "from"
                 /\ UNCHANGED <<bodyVars, extractVars, email_msg, statVars, outVars>>
    /\ UNCHANGED <<convVars, srcVars, attStatVars, probe>>

\* format_email_address(address, name) for a name that is ASCII
format_email_address(address, name) ==
    IF ~Truthy(address) THEN PyStr("")
    ELSE IF Truthy(name) /\ Strip(name.v) # ""
    THEN PyStr(name.v \o " <" \o address.v \o ">")
    ELSE address

\* "if sender_email"
SetsFrom(sender_email) == Truthy(sender_email)

\* msg['From'] = ... and msg.set_unixfrom(f'From {sender_email} {unix_date}')
WithSender(msg, snd) ==
    [msg EXCEPT !.From = format_email_address(snd.email, snd.name),
                !.unixfrom = PyStr("From " \o snd.email.v)]

\* "if sender_email": From and the envelope line; the delivery_time read in
\* that branch raises what the accessor lets through.
SetFrom ==
    /\ pc = "loop"
    /\ mpc = "from"
    /\ IF ~SetsFrom(sender.email)
       THEN /\ mpc' = "rest"
            /\ UNCHANGED <<msgVars, statVars, outVars>>
       ELSE \E dt \in Reads({PyObj("datetime")}) :
            IF safe_get_attr(dt, None).tag = "raise"
            THEN FailMessage
            ELSE /\ email_msg' = WithSender(email_msg, sender)
                 /\ mpc' = "rest"
                 /\ UNCHANGED <<bodyVars, extractVars, sender, statVars, outVars>>
    /\ UNCHANGED <<convVars, srcVars, attStatVars, probe>>

\* except (SystemError, ValueError, UnicodeDecodeError, OverflowError) around
\* the recipients
RecipientsCatches(k) == IsFieldError(k)

\* Recipients and To: reading the recipients raises what hasattr() and the
\* handler let through.  The sender locals are not used after this point and
\* are not carried further.
SetRecipients ==
    /\ pc = "loop"
    /\ mpc = "rest"
    /\ \E rcp \in Reads({PyObj("recipients")}) :
        IF rcp.tag = "raise" /\ rcp.exc # "AttributeError" /\ ~RecipientsCatches(rcp.exc)
        THEN FailMessage
        ELSE /\ mpc' = "date"
             /\ sender' = NoSender
             /\ UNCHANGED <<bodyVars, extractVars, email_msg, statVars, outVars>>
    /\ UNCHANGED <<convVars, srcVars, attStatVars, probe>>

\* Date, Message-ID, X-Folder, return msg: the delivery_time read raises
\* what the accessor lets through.
SetDate ==
    /\ pc = "loop"
    /\ mpc = "date"
    /\ \E dt \in Reads({PyObj("datetime")}) :
        IF safe_get_attr(dt, None).tag = "raise"
        THEN FailMessage
        ELSE /\ mpc' = "add"
             /\ UNCHANGED <<msgVars, statVars, outVars>>
    /\ UNCHANGED <<convVars, srcVars, attStatVars, probe>>

\* mbox_file.add(email_msg), processed_emails += 1, message_count += 1; a
\* raise from add() reaches the loop's handler.
AddToMbox ==
    /\ pc = "loop"
    /\ mpc = "add"
    /\ \E ok \in BOOLEAN :
        IF ok
        THEN /\ mbox' = Append(mbox, [pos |-> consumed - 1])
             /\ processed_emails' = processed_emails + 1
             /\ message_count' = message_count + 1
             /\ mpc' = "idle"
             /\ ClearMsg
             /\ UNCHANGED <<failed_emails, errlog>>
        ELSE FailMessage
    /\ UNCHANGED <<convVars, srcVars, attStatVars, probe>>

(***************************************************************************)
(* convert(): flush, finally, the return value; main(): the exit status     *)
(***************************************************************************)
\* flush() followed by unlock() and close() with no try/finally: a raise
\* goes to convert()'s handler at once.
FlushMboxNoFinally ==
    /\ pc = "flush"
    /\ \E ok \in BOOLEAN :
        /\ raising' = ~ok
        /\ abort' = IF ok THEN abort ELSE "flush"
        /\ pc' = IF ok THEN "unlock" ELSE "report"
    /\ UNCHANGED <<result, exit_code, locked, acquired, released>>
    /\ UNCHANGED <<srcVars, statVars, attStatVars, outVars, mpc, msgVars, probe>>

\* mbox_file.flush() at the end of the try block; it may raise.
FlushMbox ==
    /\ pc = "flush"
    /\ \E ok \in BOOLEAN :
        /\ raising' = ~ok
        /\ abort' = IF ok THEN abort ELSE "flush"
    /\ pc' = "unlock"
    /\ UNCHANGED <<result, exit_code, locked, acquired, released>>
    /\ UNCHANGED <<srcVars, statVars, attStatVars, outVars, mpc, msgVars, probe>>

\* mailbox.unlock(): release the lock if it is held
UnlockIfLocked ==
    /\ released' = IF locked THEN released + 1 ELSE released
    /\ locked' = FALSE

\* finally: mbox_file.unlock()
UnlockMbox ==
    /\ pc = "unlock"
    /\ UnlockIfLocked
    /\ pc' = "close"
    /\ UNCHANGED <<result, exit_code, acquired, raising, abort>>
    /\ UNCHANGED <<srcVars, statVars, attStatVars, outVars, mpc, msgVars, probe>>

\* finally: mbox_file.close(), which unlocks a mailbox that is still locked
CloseMbox ==
    /\ pc = "close"
    /\ UnlockIfLocked
    /\ pc' = "report"
    /\ UNCHANGED <<result, exit_code, acquired, raising, abort>>
    /\ UNCHANGED <<srcVars, statVars, attStatVars, outVars, mpc, msgVars, probe>>

\* After the finally: the statistics and return True, or, with an exception
\* propagating, convert()'s handler and return False.
Report ==
    /\ pc = "report"
    /\ result' = IF raising THEN "false" ELSE "true"
    /\ raising' = FALSE
    /\ pc' = "returned"
    /\ UNCHANGED <<exit_code, locked, acquired, released, abort>>
    /\ UNCHANGED <<srcVars, statVars, attStatVars, outVars, mpc, msgVars, probe>>

\* sys.exit(0) whatever convert() returned
ExitStatusZero(success) == 0

\* 0 if success else 1
ExitStatus(success) == IF success = "true" THEN 0 ELSE 1

\* main(): sys.exit(0 if success else 1)
Exit ==
    /\ pc = "returned"
    /\ exit_code' = ExitStatus(result)
    /\ pc' = "exited"
    /\ UNCHANGED <<result, locked, acquired, released, raising, abort>>
    /\ UNCHANGED <<srcVars, statVars, attStatVars, outVars, mpc, msgVars, probe>>

Next ==
    \/ ValidateFiles
    \/ OpenPstFile
    \/ LockMbox
    \/ NextMessage
    \/ ResolveFolder
    \/ ReadBodies
    \/ BeginExtract
    \/ FetchAttachment
    \/ ReadNameAndSize
    \/ Method1
    \/ Method2
    \/ Method3
    \/ RecordAttachment
    \/ BuildBody
    \/ SetSubject
    \/ ReadSender
    \/ ReadTransportHeaders
    \/ SetFrom
    \/ SetRecipients
    \/ SetDate
    \/ AddToMbox
    \/ FlushMbox
    \/ UnlockMbox
    \/ CloseMbox
    \/ Report
    \/ Exit

Spec == Init /\ [][Next]_vars

(***************************************************************************)
(* Properties of one run                                                   *)
(***************************************************************************)
\* The loop over the source has ended by exhausting the iterator.
BatchDone ==
    /\ pc \in {"flush", "unlock", "close", "report", "returned", "exited"}
    /\ iter_state = "exhausted"

\* C1: for a batch of N messages of which the set F raise while they are
\* built or appended, the run completes with processed = N - |F| and
\* failed = |F|, and the records appended are the messages outside F, in
\* iteration order, each exactly once; no failed message is tried again.
C1_BatchOutcome ==
    BatchDone =>
        LET F == {errlog[k].pos : k \in DOMAIN errlog}
            kept == {mbox[k].pos : k \in DOMAIN mbox}
        IN  /\ Cardinality(F) = Len(errlog)
            /\ failed_emails = Cardinality(F)
            /\ processed_emails = consumed - Cardinality(F)
            /\ Len(mbox) = processed_emails
            /\ kept = (0 .. consumed - 1) \ F
            /\ \A j, k \in DOMAIN mbox : j < k => mbox[j].pos < mbox[k].pos
            /\ (pc \in {"returned", "exited"} /\ abort = "none" => result = "true")

\* Two messages, the first failed, the second appended, the run over.
C1_Witness ==
    /\ pc = "exited"
    /\ iter_state = "exhausted"
    /\ consumed = 2
    /\ failed_emails = 1
    /\ processed_emails = 1
    /\ errlog[1].pos = 0
    /\ mbox = <<[pos |-> 1]>>
    /\ result = "true"

\* C2: once the lock of the output mailbox is taken, on every path out of
\* convert() it is released exactly once, before convert() returns.
C2_LockReleasedOnce ==
    /\ acquired <= 1
    /\ released <= acquired
    /\ (locked <=> acquired = 1 /\ released = 0)
    /\ (result # "none" /\ acquired = 1 => released = 1 /\ ~locked)

\* flush() raised: convert() returned False with the lock released once.
C2_Witness ==
    /\ result = "false"
    /\ abort = "flush"
    /\ acquired = 1
    /\ released = 1
    /\ ~locked

\* C3: attachments_found grows by one per index of the message, and for
\* each attachment attachments_extracted grows by one if and only if the
\* length of the data recovered is greater than 0, attachment_bytes growing
\* by that length; an attachment of size 0 with no data is not counted.
C3_ExtractedIffBytesRecovered ==
    [][/\ (mpc = "extract" /\ mpc' = "fetch" =>
              attachments_found' = attachments_found + attachment_count')
       /\ (mpc = "record" =>
              LET n == ActualSize(att.data)
              IN  /\ attachments_extracted' =
                         attachments_extracted + (IF n > 0 THEN 1 ELSE 0)
                  /\ attachment_bytes' = attachment_bytes + n)]_vars

HasBytes(a) == ActualSize(a.data) > 0

\* C4: a message with at least one attachment with non-empty data is
\* multipart/mixed, its first part the body part, followed by exactly one
\* attachment part per attachment with non-empty data, in enumeration
\* order; an attachment with empty data has no part.
C4_MixedAttachmentParts ==
    mpc = "subject" /\ (\E k \in DOMAIN attachments : HasBytes(attachments[k])) =>
        LET tree == email_msg.tree
            full == SelectSeq(attachments, HasBytes)
        IN  /\ tree.type = "multipart/mixed"
            /\ Len(tree.parts) = 1 + Len(full)
            /\ tree.parts[1].type \in {"text/plain", "text/html", "multipart/alternative"}
            /\ \A k \in 1 .. Len(full) :
                /\ tree.parts[k + 1].type = "application/octet-stream"
                /\ tree.parts[k + 1].index = full[k].index
                /\ tree.parts[k + 1].payload = full[k].data.v
                /\ tree.parts[k + 1].filename = full[k].filename.v
            /\ \A j, k \in 1 .. Len(full) : j < k => full[j].index < full[k].index

\* Two attachments, the first with empty data, the second with data: one
\* attachment part, for the second.
C4_Witness ==
    /\ mpc = "subject"
    /\ Len(attachments) = 2
    /\ ~HasBytes(attachments[1])
    /\ HasBytes(attachments[2])
    /\ email_msg.tree.type = "multipart/mixed"
    /\ Len(email_msg.tree.parts) = 2
    /\ email_msg.tree.parts[2].index = 1

\* C5: a message with no attachments has the shape its two bodies decide:
\* both non-empty, multipart/alternative of plain then HTML; HTML only, one
\* HTML part; plain only, one plain part; both empty, one plain part that
\* reads "(No content)".
C5_ShapeWithoutAttachments ==
    mpc = "subject" /\ attachments = <<>> =>
        LET tree == email_msg.tree
            plain == body_text.v # ""
            html == body_html.v # ""
        IN  /\ plain /\ html =>
                tree = [type |-> "multipart/alternative",
                        parts |-> <<[type |-> "text/plain", content |-> body_text.v],
                                    [type |-> "text/html", content |-> body_html.v]>>]
            /\ ~plain /\ html => tree = [type |-> "text/html", content |-> body_html.v]
            /\ plain /\ ~html => tree = [type |-> "text/plain", content |-> body_text.v]
            /\ ~plain /\ ~html => tree = [type |-> "text/plain", content |-> "(No content)"]

\* No attachments and both bodies empty: the placeholder.
C5_Witness ==
    /\ mpc = "subject"
    /\ attachment_count = 0
    /\ attachments = <<>>
    /\ body_text = PyStr("")
    /\ body_html = PyStr("")
    /\ email_msg.tree = [type |-> "text/plain", content |-> "(No content)"]

ExtractStages == {"extract", "fetch", "fields", "method1", "method2", "method3", "record"}

\* extract_attachments has returned to convert_pst_message_to_email.
C6_Returned ==
    mpc = "body" =>
        /\ \A k \in DOMAIN att_errors :
            LET e == att_errors[k]
            IN  /\ \A a \in DOMAIN attachments : attachments[a].index # e.index
                /\ e.field => e.index < idx
                /\ ~e.field => k = Len(att_errors) /\ idx = e.index
        /\ (\A k \in DOMAIN att_errors : att_errors[k].field) /\ attachment_count > 0 =>
                idx = attachment_count
        /\ \A a \in DOMAIN attachments : attachments[a].index < idx
        /\ \A a, b \in DOMAIN attachments : a < b => attachments[a].index < attachments[b].index

\* A step of extract_attachments goes on inside it or returns to the caller;
\* it does not reach the loop's handler.
C6_StaysInMessage ==
    mpc \in ExtractStages =>
        /\ mpc' \in ExtractStages \cup {"body"}
        /\ failed_emails' = failed_emails
        /\ errlog' = errlog

C8_AbortBeforeProcessing ==
    /\ abort \in {"missing", "not_file", "declined", "open"} =>
        /\ pc \in {"returned", "exited"}
        /\ result = "false"
        /\ consumed = 0
        /\ acquired = 0
        /\ ~locked
        /\ mbox = <<>>
        /\ processed_emails = 0
        /\ (pc = "exited" => exit_code = 1)
    /\ (pc = "exited" /\ abort = "none" => result = "true" /\ exit_code = 0)
    /\ (pc = "exited" => exit_code \in {0, 1})

\* The overwrite was declined and the process has exited.
C8_Witness ==
    /\ pc = "exited"
    /\ abort = "declined"
    /\ result = "false"
    /\ exit_code = 1

\* C9: From and the envelope line are both set or both absent, set exactly
\* when a sender email is available; that email is the structured one when
\* it is non-empty, and the From: line of the transport headers is consulted
\* only when the structured email is empty and there are transport headers.
C9_FromAndEnvelope ==
    /\ mpc \in {"rest", "date", "add"} =>
        ((email_msg.From # None) <=> (email_msg.unixfrom # None))
    /\ mpc = "rest" =>
        /\ (email_msg.From # None) <=> (sender.email.v # "")
        /\ sender.structured.v # "" =>
            /\ ~sender.searched
            /\ sender.email = sender.structured
            /\ email_msg.unixfrom = PyStr("From " \o sender.structured.v)
        /\ sender.searched => sender.structured.v = "" /\ sender.headers
        /\ sender.email # sender.structured => sender.searched
        /\ email_msg.From # None =>
            /\ email_msg.unixfrom = PyStr("From " \o sender.email.v)
            /\ email_msg.From \in {sender.email,
                                   PyStr(sender.name.v \o " <" \o sender.email.v \o ">")}

\* No structured email, a From: line in the transport headers: both set
\* from the match.
C9_Witness ==
    /\ mpc = "rest"
    /\ sender.searched
    /\ sender.structured = PyStr("")
    /\ email_msg.From = PyStr("Jane Doe <jane@example.com>")
    /\ email_msg.unixfrom = PyStr("From jane@example.com")

MethodRank(m) == CASE m = "read_buffer" -> 1 [] m = "get_data" -> 2 [] m = "data" -> 3

C11_InsideMessage == mpc # "idle" /\ mpc' # "idle"

\* C11: no counter (processed_emails, failed_emails, attachments_found,
\* attachments_extracted, attachment_bytes) changes between the start of a
\* message's conversion and the point where its record is appended or its
\* failure is caught, so a failed message leaves the attachment counters
\* as they were.
C11_CountersAfterOutcome ==
    [][C11_InsideMessage =>
          UNCHANGED <<processed_emails, failed_emails, attachments_found,
                      attachments_extracted, attachment_bytes>>]_vars

\* C12: when the message at position p of the source fails, the index
\* logged with the error is p, also when earlier messages have failed.
C12_LoggedIndexIsPosition ==
    \A k \in DOMAIN errlog : errlog[k].index = errlog[k].pos

\* C13: when the source iterator raises after j messages, the error stays
\* inside process_messages: no further message is processed, the mailbox
\* is flushed and unlocked, processed + failed = j with one record per
\* processed message, and convert() returns True, exit status 0.
C13_IteratorRaiseSwallowed ==
    iter_state = "raised" =>
        /\ pc \in {"flush", "unlock", "close", "report", "returned", "exited"}
        /\ mpc = "idle"
        /\ processed_emails + failed_emails = consumed
        /\ Len(mbox) = processed_emails
        /\ Len(errlog) = failed_emails
        /\ (pc \in {"flush", "unlock"} => locked)
        /\ (pc \in {"report", "returned", "exited"} => released = 1 /\ ~locked)
        /\ (pc \in {"unlock", "close", "report"} /\ abort = "none" => ~raising)
        /\ (pc \in {"returned", "exited"} /\ abort = "none" => result = "true")
        /\ (pc = "exited" /\ abort = "none" => exit_code = 0)

\* The iterator raised after one message, which was appended; the run
\* ended with True and status 0, one message never read.
C13_Witness ==
    /\ iter_state = "raised"
    /\ pc = "exited"
    /\ consumed = 1
    /\ processed_emails = 1
    /\ mbox = <<[pos |-> 0]>>
    /\ released = 1
    /\ result = "true"
    /\ exit_code = 0

(***************************************************************************)
(* safe_get_attr() on its own: one call, on any read outcome and default    *)
(***************************************************************************)
ProbeValues ==
    {PyStr(""), PyStr("text"), PyInt(0), PyInt(2), PyBytes(<<>>), PyBytes(<<"x", "y">>),
     PyObj("datetime")}
ProbeDefaults == {PyStr(""), PyStr("Unknown"), PyInt(0), None, DefaultName(0)}

InitAccessor ==
    /\ InitRun
    /\ probe \in {[state |-> "call", read |-> r, default |-> d] :
                    r \in Reads(ProbeValues), d \in ProbeDefaults}

CallAccessor ==
    /\ probe.state = "call"
    /\ probe' = [state |-> "done", read |-> probe.read, default |-> probe.default,
                 out |-> safe_get_attr(probe.read, probe.default)]
    /\ UNCHANGED <<convVars, srcVars, statVars, attStatVars, outVars, mpc, msgVars>>

NextAccessor == CallAccessor

SpecAccessor == InitAccessor /\ [][NextAccessor]_vars

\* C7 as stated: safe_get_attr never raises; whatever the read raises, and
\* when the value is None, it returns the default.
C7_NeverRaises ==
    probe.state = "done" =>
        /\ probe.out.tag = "return"
        /\ (probe.read.tag = "raise" \/ probe.read.v = None => probe.out.v = probe.default)

\* C7, amended: safe_get_attr returns the default when the read raises
\* SystemError, ValueError, UnicodeDecodeError or OverflowError, when the
\* attribute is missing and when the value is None, and the value read
\* otherwise; an exception of any other class propagates to the caller.
C7_DefaultOnFieldErrors ==
    probe.state = "done" =>
        LET read == probe.read
            absorbed == {"SystemError", "ValueError", "UnicodeDecodeError", "OverflowError",
                         "AttributeError"}
        IN  IF read.tag = "raise"
            THEN IF read.exc \in absorbed
                 THEN probe.out = [tag |-> "return", v |-> probe.default]
                 ELSE probe.out = [tag |-> "raise", exc |-> read.exc]
            ELSE IF read.v = None
            THEN probe.out = [tag |-> "return", v |-> probe.default]
            ELSE probe.out = [tag |-> "return", v |-> read.v]

\* The read raised OverflowError and the call returned the default.
C7_Witness ==
    /\ probe.state = "done"
    /\ probe.read = [tag |-> "raise", exc |-> "OverflowError"]
    /\ probe.default = PyStr("Unknown")
    /\ probe.out = [tag |-> "return", v |-> PyStr("Unknown")]
====
